---- MODULE Spec2Model ----
(***************************************************************************)
(* SolidJS primitives of @jamwidgets/solid (src/src/index.ts).             *)
(* Each create* primitive builds one controller of @jamwidgets/core,       *)
(* subscribes a listener that copies the notified state into signals,      *)
(* optionally fires an automatic fetch/record in the mount effect, and     *)
(* returns accessors plus action methods that forward to the controller.   *)
(* The controllers are an external library: they are modelled as an        *)
(* environment that keeps a state, a listener list, and emits              *)
(* notifications during a method call and when a request settles.          *)
(***************************************************************************)
EXTENDS Integers, Sequences, FiniteSets, TLC

\* ------------------------------------------------------------------ bounds
\* Total number of action invocations made by the user.
MaxCalls == 2
\* The same, in the specification of two instances.
MaxCallsPair == 1
\* Number of distinct data payloads / argument samples.
NumData == 1

VARIABLES prim, phase, signals, ctl, pending, invoked, called, last

vars == <<prim, phase, signals, ctl, pending, invoked, called, last>>

\* Two primitive instances (two calls of a create* function).
Inst == {"p", "q"}

Kinds ==
  {"createSubscribe", "createForm", "createReactions", "createComments",
   "createWaitlist", "createViews", "createFeedback", "createPoll",
   "createAnnouncements"}

\* A value of data field f: payload 0 is the initial value (null, {}, [], 0).
Val(f, v) == <<f, v>>

Range(s) == {s[n] : n \in 1..Len(s)}

RECURSIVE SumOver(_, _)
SumOver(f, S) ==
  IF S = {} THEN 0
  ELSE LET x == CHOOSE y \in S : TRUE IN f[x] + SumOver(f, S \ {x})

\* ------------------------------------------------------- controller states
\* The XxxState record a controller passes to its listeners: status st, data
\* payload d (0: the initial data) and error e (0: null).
StateOf(k, st, d, e) ==
  CASE k \in {"createSubscribe", "createForm", "createFeedback"} ->
         [status |-> st, message |-> Val("message", d), error |-> Val("error", e)]
    [] k = "createWaitlist" ->
         [status |-> st, message |-> Val("message", d),
          position |-> Val("position", d), error |-> Val("error", e)]
    [] k = "createReactions" ->
         [counts |-> Val("counts", d), userReactions |-> Val("userReactions", d),
          status |-> st, error |-> Val("error", e)]
    [] k = "createComments" ->
         [comments |-> Val("comments", d), status |-> st, error |-> Val("error", e)]
    [] k = "createViews" ->
         [views |-> Val("views", d), uniqueVisitors |-> Val("uniqueVisitors", d),
          status |-> st, error |-> Val("error", e)]
    [] k = "createPoll" ->
         [poll |-> Val("poll", d), status |-> st, error |-> Val("error", e)]
    [] k = "createAnnouncements" ->
         [announcements |-> 1..d, status |-> st, error |-> Val("error", e)]

\* "No notification": a value that is no state.
NoState == [none |-> TRUE]

\* What a controller may emit during a method call: reset restores the
\* initial state, any other method may announce "loading"; or nothing.
CallEmits(k, method) ==
  IF method = "reset" THEN {NoState, StateOf(k, "idle", 0, 0)}
  ELSE {NoState, StateOf(k, "loading", 0, 0)}

\* What a controller may emit when a request settles: a success state with
\* its data, or an error state; or nothing.
SettleEmits(k, ok) ==
  {NoState} \cup {IF ok THEN StateOf(k, "success", v, 0) ELSE StateOf(k, "error", 0, v) :
                    v \in 1..NumData}

\* A freshly constructed controller: new XxxController(config, ...).
Controller(k) ==
  [kind |-> k, state |-> StateOf(k, "idle", 0, 0), listeners |-> <<>>,
   dismissed |-> {}, voted |-> FALSE]

\* AnnouncementsController.getVisibleAnnouncements(): the non-dismissed ones.
getVisibleAnnouncements(c) == c.state.announcements \ c.dismissed

\* ------------------------------------------------------------- primitives
\* The initial values of the signals: createSignal(...) of each primitive.
InitialSignals(k) ==
  CASE k \in {"createSubscribe", "createForm", "createFeedback"} ->
         [status |-> "idle", message |-> Val("message", 0), error |-> Val("error", 0)]
    [] k = "createWaitlist" ->
         [status |-> "idle", message |-> Val("message", 0),
          position |-> Val("position", 0), error |-> Val("error", 0)]
    [] k = "createReactions" ->
         [counts |-> Val("counts", 0), userReactions |-> Val("userReactions", 0),
          status |-> "idle", error |-> Val("error", 0)]
    [] k = "createComments" ->
         [comments |-> Val("comments", 0), status |-> "idle", error |-> Val("error", 0)]
    [] k = "createViews" ->
         [views |-> Val("views", 0), uniqueVisitors |-> Val("uniqueVisitors", 0),
          status |-> "idle", error |-> Val("error", 0)]
    [] k = "createPoll" ->
         [poll |-> Val("poll", 0), status |-> "idle", error |-> Val("error", 0)]
    [] k = "createAnnouncements" ->
         [announcements |-> {}, status |-> "idle", error |-> Val("error", 0)]

\* A listener that never calls setError.
ListenerNoError(k, state, controller) ==
  [f \in DOMAIN state |-> IF f = "error" THEN Val("error", 0) ELSE state[f]]

\* A listener that copies state.announcements as notified.
ListenerRawState(k, state, controller) == state

\* The listener each primitive passes to controller.subscribe: the new signal
\* values after it was called with `state`; `controller` is the primitive's own
\* controller, which createAnnouncements asks for the visible announcements.
Listener(k, state, controller) ==
  CASE k \in {"createSubscribe", "createForm", "createFeedback"} ->
         [status |-> state.status, message |-> state.message, error |-> state.error]
    [] k = "createWaitlist" ->
         [status |-> state.status, message |-> state.message,
          position |-> state.position, error |-> state.error]
    [] k = "createReactions" ->
         [counts |-> state.counts, userReactions |-> state.userReactions,
          status |-> state.status, error |-> state.error]
    [] k = "createComments" ->
         [comments |-> state.comments, status |-> state.status, error |-> state.error]
    [] k = "createViews" ->
         [views |-> state.views, uniqueVisitors |-> state.uniqueVisitors,
          status |-> state.status, error |-> state.error]
    [] k = "createPoll" ->
         [poll |-> state.poll, status |-> state.status, error |-> state.error]
    [] k = "createAnnouncements" ->
         [announcements |-> getVisibleAnnouncements(controller),
          status |-> state.status, error |-> state.error]

\* The kinds that take autoFetch / autoRecord, and the method the option fires.
AutoKinds ==
  {"createReactions", "createComments", "createViews", "createPoll",
   "createAnnouncements"}

\* Every automatic call is a fetch.
AutoMethodFetch(k) == "fetch"

AutoMethod(k) == IF k = "createViews" THEN "record" ELSE "fetch"

\* The option as passed: omitted (undefined), true or false.
AutoValues(k) == IF k \in AutoKinds THEN {"omitted", "true", "false"} ELSE {"omitted"}

\* if (options.autoFetch): an omitted option counts as false.
AutoEnabledTruthy(k, auto) == k \in AutoKinds /\ auto = "true"

\* The option is ignored.
AutoEnabledAlways(k, auto) == k \in AutoKinds

\* if (options.autoFetch !== false) / if (options.autoRecord !== false)
AutoEnabled(k, auto) == k \in AutoKinds /\ auto # "false"

\* The action methods each primitive returns.
Actions(k) ==
  CASE k = "createSubscribe" -> {"subscribe", "reset"}
    [] k = "createForm" -> {"submit", "reset"}
    [] k = "createReactions" -> {"addReaction", "removeReaction", "refresh"}
    [] k = "createComments" -> {"postComment", "refresh"}
    [] k = "createWaitlist" -> {"join", "reset"}
    [] k = "createViews" -> {"record", "refresh"}
    [] k = "createFeedback" -> {"submit", "reset"}
    [] k = "createPoll" -> {"vote", "refresh"}
    [] k = "createAnnouncements" -> {"dismiss", "refresh"}

AllActions == UNION {Actions(k) : k \in Kinds}

\* Number of parameters of each action method.
Arity(k, a) ==
  CASE a \in {"reset", "refresh", "record"} -> 0
    [] a = "postComment" -> 3
    [] a = "join" -> 2
    [] a = "submit" /\ k = "createFeedback" -> 3
    [] OTHER -> 1

\* Argument samples: tuples of pairwise distinct values.
ArgTuples(n) == {[j \in 1..n |-> b + j - 1] : b \in 1..NumData}

\* The controller method an action forwards to.
MethodOf(k, a) ==
  CASE a = "subscribe" -> "submit"
    [] a = "addReaction" -> "add"
    [] a = "removeReaction" -> "remove"
    [] a = "postComment" -> "post"
    [] a = "refresh" -> "fetch"
    [] OTHER -> a

\* The arguments are passed in reverse order.
ForwardReversed(k, a, args) ==
  <<[method |-> MethodOf(k, a), args |-> [j \in 1..Len(args) |-> args[Len(args) + 1 - j]]]>>

\* An action whose earlier invocation is still pending is dropped.
ForwardSkipPending(k, a, args) ==
  IF \E n \in 1..Len(pending) : pending[n].src = a THEN <<>>
  ELSE <<[method |-> MethodOf(k, a), args |-> args]>>

\* The controller calls an action makes: await controller.m(args...).
Forward(k, a, args) == <<[method |-> MethodOf(k, a), args |-> args]>>

Methods ==
  {"subscribe", "unsubscribe", "submit", "reset", "add", "remove", "fetch",
   "post", "join", "record", "vote", "dismiss"}

\* Methods that return void synchronously; the others return a promise.
SyncMethods == {"reset"}

\* The action catches the failure: its promise always resolves.
AwaitSwallow(outcome) == "resolved"

\* What the promise returned by an async action does when the awaited
\* controller promise settles: `await controller.m()` passes the outcome on.
AwaitResult(outcome) == outcome


\* --------------------------------------------------------------- the world
\* Everything a step of the wrapper or of a controller can change, passed
\* through the operators below in the order the code runs them.
\*   notified: the instances whose listener ran during the step
\*   calls:    the controller calls made during the step
World ==
  [ctl |-> ctl, signals |-> signals,
   pending |-> pending, called |-> called, notified |-> {}, calls |-> <<>>]

RemoveAt(s, n) == SubSeq(s, 1, n - 1) \o SubSeq(s, n + 1, Len(s))

RemoveOne(s, x) ==
  LET idx == {n \in 1..Len(s) : s[n] = x} IN
  IF idx = {} THEN s
  ELSE RemoveAt(s, CHOOSE m \in idx : \A n \in idx : m <= n)

\* Controller c sets its state to s and calls every registered listener.
Emit(w, c, s) ==
  LET cs == [w.ctl EXCEPT ![c].state = s]
      ls == Range(cs[c].listeners)
  IN [w EXCEPT
        !.ctl = cs,
        !.signals = [i \in Inst |->
                       IF i \in ls
                       THEN Listener(prim[i].kind, s, cs[prim[i].ctl])
                       ELSE w.signals[i]],
        !.notified = w.notified \cup ls]

EmitOpt(w, c, e) == IF e = NoState THEN w ELSE Emit(w, c, e)

\* controller.subscribe(listener): registers the listener of instance i; the
\* controller may call it at once with its current state (imm).
Subscribe(w, i, imm) ==
  LET c == prim[i].ctl
      w1 == [w EXCEPT !.ctl[c].listeners = Append(@, i),
                      !.called[i]["subscribe"] = @ + 1]
  IN IF imm
     THEN [w1 EXCEPT
             !.signals[i] = Listener(prim[i].kind, w1.ctl[c].state, w1.ctl[c]),
             !.notified = @ \cup {i}]
     ELSE w1

\* The unsubscribe function controller.subscribe returned: removes the listener.
Unsubscribe(w, i) ==
  LET c == prim[i].ctl
  IN [w EXCEPT !.ctl[c].listeners = RemoveOne(@, i),
               !.called[i]["unsubscribe"] = @ + 1]

\* Instance i calls controller.method(args) from src (an action or the
\* effect). The controller may emit a state e during the call; dismiss records
\* the dismissal and always notifies.
CtlCall(w, i, src, method, args, e) ==
  LET c == prim[i].ctl
      w1 == [w EXCEPT
               !.called[i][method] = @ + 1,
               !.calls = Append(@, [method |-> method, args |-> args]),
               !.pending = IF method \in SyncMethods THEN @
                           ELSE Append(@, [inst |-> i, src |-> src, method |-> method]),
               !.ctl[c].dismissed = IF method = "dismiss" THEN @ \cup {args[1]} ELSE @]
  IN IF method = "dismiss" /\ e = NoState
     THEN Emit(w1, c, w1.ctl[c].state)
     ELSE EmitOpt(w1, c, e)

RECURSIVE RunCalls(_, _, _, _, _)
RunCalls(w, i, src, cs, e) ==
  IF cs = <<>> THEN w
  ELSE RunCalls(CtlCall(w, i, src, Head(cs).method, Head(cs).args, e),
                i, src, Tail(cs), e)

\* The automatic call is made before the listener is registered.
EffectCallFirst(w, i, imm, e) ==
  LET k == prim[i].kind
  IN IF AutoEnabled(k, prim[i].auto)
     THEN Subscribe(CtlCall(w, i, "effect", AutoMethod(k), <<>>, e), i, imm)
     ELSE Subscribe(w, i, imm)

\* The body of createEffect: subscribe, then the automatic fetch / record.
Effect(w, i, imm, e) ==
  LET k == prim[i].kind
      w1 == Subscribe(w, i, imm)
  IN IF AutoEnabled(k, prim[i].auto)
     THEN CtlCall(w1, i, "effect", AutoMethod(k), <<>>, e)
     ELSE w1

\* No cleanup is registered.
CleanupMissing(w, i) == w

\* onCleanup(unsubscribe)
Cleanup(w, i) == Unsubscribe(w, i)

Commit(w) ==
  /\ ctl' = w.ctl
  /\ signals' = w.signals
  /\ pending' = w.pending
  /\ called' = w.called

\* ------------------------------------------------------------------- init
Absent ==
  [kind |-> "none", auto |-> "omitted", ctl |-> 0]

\* One module-level controller shared by every call.
ConstructShared(cs, k) == IF cs = <<>> THEN Append(cs, Controller(k)) ELSE cs

\* new XxxController(config, ...): each call constructs a controller.
Construct(cs, k) == Append(cs, Controller(k))

NoCalls == [m \in Methods |-> 0]

NoInvocations == [a \in AllActions |-> 0]

Created ==
  [op |-> "create", inst |-> "p", action |-> "none", args |-> <<>>,
   calls |-> <<>>, notified |-> {}, outcome |-> "none", promise |-> "none"]

\* One primitive, just returned by its create* function.
Init ==
  \E k \in Kinds : \E auto \in AutoValues(k) :
    LET cs == Construct(<<>>, k) IN
    /\ prim = [i \in Inst |-> IF i = "p" THEN [kind |-> k, auto |-> auto, ctl |-> Len(cs)]
                              ELSE Absent]
    /\ phase = [i \in Inst |-> IF i = "p" THEN "created" ELSE "absent"]
    /\ signals = [i \in Inst |-> IF i = "p" THEN InitialSignals(k) ELSE NoState]
    /\ ctl = cs
    /\ pending = <<>>
    /\ invoked = [i \in Inst |-> NoInvocations]
    /\ called = [i \in Inst |-> NoCalls]
    /\ last = Created

\* Two primitives created by two calls of the same create* function with the
\* same options.
InitPair ==
  \E k \in Kinds : \E auto \in AutoValues(k) :
    LET cs1 == Construct(<<>>, k)
        cs2 == Construct(cs1, k)
    IN
    /\ prim = [i \in Inst |-> [kind |-> k, auto |-> auto,
                               ctl |-> IF i = "p" THEN Len(cs1) ELSE Len(cs2)]]
    /\ phase = [i \in Inst |-> "created"]
    /\ signals = [i \in Inst |-> InitialSignals(k)]
    /\ ctl = cs2
    /\ pending = <<>>
    /\ invoked = [i \in Inst |-> NoInvocations]
    /\ called = [i \in Inst |-> NoCalls]
    /\ last = Created

\* ---------------------------------------------------------------- actions
\* The effect of instance i runs (mount).
Mount(i) ==
  /\ phase[i] = "created"
  /\ \E imm \in BOOLEAN : \E e \in CallEmits(prim[i].kind, AutoMethod(prim[i].kind)) :
       LET w == Effect(World, i, imm, e) IN
       /\ Commit(w)
       /\ last' = [op |-> "effect", inst |-> i, action |-> "effect", args |-> <<>>,
                   calls |-> w.calls, notified |-> w.notified,
                   outcome |-> "none", promise |-> "none"]
  /\ phase' = [phase EXCEPT ![i] = "mounted"]
  /\ UNCHANGED <<prim, invoked>>

\* The owner of instance i is disposed (unmount): the cleanup runs.
Dispose(i) ==
  /\ phase[i] = "mounted"
  /\ LET w == Cleanup(World, i) IN
       /\ Commit(w)
       /\ last' = [op |-> "cleanup", inst |-> i, action |-> "cleanup", args |-> <<>>,
                   calls |-> w.calls, notified |-> w.notified,
                   outcome |-> "none", promise |-> "none"]
  /\ phase' = [phase EXCEPT ![i] = "disposed"]
  /\ UNCHANGED <<prim, invoked>>

TotalInvoked == SumOver([i \in Inst |-> SumOver(invoked[i], AllActions)], Inst)

\* The user calls action a of instance i with args (at most max invocations
\* are explored).
InvokeWithin(i, a, args, max) ==
  /\ phase[i] \in {"created", "mounted", "disposed"}
  /\ TotalInvoked < max
  /\ \E e \in CallEmits(prim[i].kind, MethodOf(prim[i].kind, a)) :
       LET k == prim[i].kind
           w == RunCalls(World, i, a, Forward(k, a, args), e)
       IN
       /\ Commit(w)
       /\ last' = [op |-> "invoke", inst |-> i, action |-> a, args |-> args,
                   calls |-> w.calls, notified |-> w.notified,
                   outcome |-> "none", promise |-> "none"]
  /\ invoked' = [invoked EXCEPT ![i][a] = @ + 1]
  /\ UNCHANGED <<prim, phase>>

Invoke(i, a, args) == InvokeWithin(i, a, args, MaxCalls)

InvokePair(i, a, args) == InvokeWithin(i, a, args, MaxCallsPair)

\* What an action does once the awaited controller promise has settled:
\* nothing follows the await.
AfterAwait(w, req, outcome) == w

\* The n-th pending controller request settles: its promise resolves (ok) or
\* rejects, the controller may emit a state e, and the awaiting action's
\* promise settles.
Settle(n, ok, e) ==
  LET req == pending[n]
      c == prim[req.inst].ctl
      outcome == IF ok THEN "resolved" ELSE "rejected"
      w1 == [World EXCEPT
               !.pending = RemoveAt(@, n),
               !.ctl[c].voted = @ \/ (req.method = "vote" /\ ok)]
      w == AfterAwait(EmitOpt(w1, c, e), req, outcome)
  IN
  /\ Commit(w)
  /\ last' = [op |-> "settle", inst |-> req.inst, action |-> req.src, args |-> <<>>,
              calls |-> w.calls, notified |-> w.notified,
              outcome |-> outcome,
              promise |-> IF req.src = "effect" THEN "none" ELSE AwaitResult(outcome)]
  /\ UNCHANGED <<prim, phase, invoked>>

\* The instances that exist.
Present == {i \in Inst : phase[i] # "absent"}

Next ==
  \/ \E i \in Present : Mount(i)
  \/ \E i \in Present : Dispose(i)
  \/ \E i \in Present : \E a \in Actions(prim[i].kind) :
       \E args \in ArgTuples(Arity(prim[i].kind, a)) : Invoke(i, a, args)
  \/ \E n \in 1..Len(pending) : \E ok \in BOOLEAN :
       \E e \in SettleEmits(prim[pending[n].inst].kind, ok) : Settle(n, ok, e)

Spec == Init /\ [][Next]_vars

NextPair ==
  \/ \E i \in Present : Mount(i)
  \/ \E i \in Present : Dispose(i)
  \/ \E i \in Present : \E a \in Actions(prim[i].kind) :
       \E args \in ArgTuples(Arity(prim[i].kind, a)) : InvokePair(i, a, args)
  \/ \E n \in 1..Len(pending) : \E ok \in BOOLEAN :
       \E e \in SettleEmits(prim[pending[n].inst].kind, ok) : Settle(n, ok, e)

SpecPair == InitPair /\ [][NextPair]_vars


\* ------------------------------------------------------------- accessors
\* createPoll: const hasVoted = () => controller.hasVoted()
hasVoted(i) == ctl[prim[i].ctl].voted

\* The values the accessors returned by primitive i give when read.
Accessors(i) ==
  IF prim[i].kind = "createPoll"
  THEN [poll |-> signals[i].poll, status |-> signals[i].status,
        error |-> signals[i].error, hasVoted |-> hasVoted(i)]
  ELSE signals[i]

KindOf(i) == prim[i].kind

Mounted(i) == phase[i] = "mounted"

Live(i) == phase[i] \in {"mounted", "disposed"}

\* Number of listeners instance i has registered with any controller.
Registered(i) ==
  SumOver([c \in 1..Len(ctl) |->
             Cardinality({n \in 1..Len(ctl[c].listeners) : ctl[c].listeners[n] = i})],
          1..Len(ctl))

\* Accessors change only in a step in which the instance's listener ran.
OnlyNotificationsSetSignals ==
  \A i \in Inst : signals'[i] # signals[i] => i \in last'.notified


\* ----------------------------------------------------------------- claims
\* The primitives whose listener copies every field of the notified state.
CopyingKinds == Kinds \ {"createAnnouncements"}

\* C1: while the listener of a primitive is subscribed, after each controller
\* notification every state accessor equals the corresponding field of the
\* state the controller notified last.
C1_AccessorsFollowNotifications ==
  \A i \in Inst :
    (KindOf(i) \in CopyingKinds /\ Mounted(i) /\ i \in last.notified)
      => /\ DOMAIN signals[i] = DOMAIN ctl[prim[i].ctl].state
         /\ \A f \in DOMAIN signals[i] : signals[i][f] = ctl[prim[i].ctl].state[f]

C1_Witness ==
  \E i \in Inst :
    /\ KindOf(i) = "createWaitlist" /\ Mounted(i) /\ i \in last.notified
    /\ last.op = "settle"
    /\ signals[i].status = "success"
    /\ signals[i].error = Val("error", 0)
    /\ signals[i].position = Val("position", 1)

\* C2: after the cleanup of a primitive, no step changes any of its accessors.
C2_AccessorsFrozenAfterCleanup ==
  [][\A i \in Inst : phase[i] = "disposed" => Accessors(i)' = Accessors(i)]_vars

\* C3: controller.subscribe is called once, when the effect runs, and its
\* unsubscribe once, at cleanup; the instance has one listener registered
\* while mounted and none before the effect or after the cleanup.
C3_OneSubscribeOneUnsubscribe ==
  \A i \in Inst :
    /\ phase[i] \in {"absent", "created"} =>
         called[i]["subscribe"] = 0 /\ called[i]["unsubscribe"] = 0 /\ Registered(i) = 0
    /\ phase[i] = "mounted" =>
         called[i]["subscribe"] = 1 /\ called[i]["unsubscribe"] = 0 /\ Registered(i) = 1
    /\ phase[i] = "disposed" =>
         called[i]["subscribe"] = 1 /\ called[i]["unsubscribe"] = 1 /\ Registered(i) = 0

C3_Witness ==
  \E i \in Inst :
    /\ KindOf(i) = "createPoll" /\ phase[i] = "disposed"
    /\ called[i]["subscribe"] = 1 /\ called[i]["unsubscribe"] = 1
    /\ pending # <<>>


\* The primitives that take the autoFetch option.
AutoFetchKinds ==
  {"createReactions", "createComments", "createPoll", "createAnnouncements"}

FetchCall == [method |-> "fetch", args |-> <<>>]

RecordCall == [method |-> "record", args |-> <<>>]

\* C4: with autoFetch omitted or true, the mount effect calls controller.fetch
\* exactly once: the effect makes that one call, and the fetch calls made so
\* far are the refresh() calls plus the one made at mount.
C4_AutoFetchOnMount ==
  \A i \in Inst :
    (KindOf(i) \in AutoFetchKinds /\ prim[i].auto \in {"omitted", "true"})
      => /\ (last.op = "effect" /\ last.inst = i) => last.calls = <<FetchCall>>
         /\ called[i]["fetch"]
              = invoked[i]["refresh"] + (IF Live(i) THEN 1 ELSE 0)

C4_Witness ==
  \E i \in Inst :
    /\ KindOf(i) = "createReactions" /\ prim[i].auto = "omitted"
    /\ last.op = "effect" /\ last.inst = i
    /\ invoked[i]["refresh"] = 0
    /\ called[i]["fetch"] = 1

\* C5: with autoFetch false the primitive never calls controller.fetch on its
\* own: the fetch calls are exactly the refresh() calls, the effect makes no
\* controller call besides subscribe, and the accessors start at their initial
\* values and change only when the listener is notified.
C5_NoFetchWithoutRefresh ==
  /\ [](\A i \in Inst :
          (KindOf(i) \in AutoFetchKinds /\ prim[i].auto = "false")
            => /\ called[i]["fetch"] = invoked[i]["refresh"]
               /\ (last.op = "effect" /\ last.inst = i) => last.calls = <<>>
               /\ (last.op = "create") => signals[i] = InitialSignals(KindOf(i)))
  /\ [][\A i \in Inst :
          (KindOf(i) \in AutoFetchKinds /\ prim[i].auto = "false"
             /\ signals'[i] # signals[i]) => i \in last'.notified]_vars

C5_Witness ==
  \E i \in Inst :
    /\ KindOf(i) = "createComments" /\ prim[i].auto = "false"
    /\ Mounted(i)
    /\ invoked[i]["refresh"] = 1 /\ called[i]["fetch"] = 1
    /\ pending = <<>>
    /\ signals[i] = InitialSignals("createComments")

\* C6: createViews records the view once at mount when autoRecord is omitted
\* or true and not at all when it is false; the effect never calls
\* controller.fetch, which only refresh() calls.
C6_AutoRecordOnMount ==
  \A i \in Inst :
    KindOf(i) = "createViews"
      => /\ (last.op = "effect" /\ last.inst = i) =>
              last.calls = IF prim[i].auto = "false" THEN <<>> ELSE <<RecordCall>>
         /\ called[i]["record"]
              = invoked[i]["record"]
                  + (IF Live(i) /\ prim[i].auto # "false" THEN 1 ELSE 0)
         /\ called[i]["fetch"] = invoked[i]["refresh"]

C6_Witness ==
  \E i \in Inst :
    /\ KindOf(i) = "createViews" /\ prim[i].auto = "omitted"
    /\ last.op = "effect" /\ last.inst = i
    /\ called[i]["record"] = 1 /\ called[i]["fetch"] = 0

\* The controller method each action is documented to forward to.
ForwardTable(k, a) ==
  CASE k = "createSubscribe" /\ a = "subscribe" -> "submit"
    [] k = "createForm" /\ a = "submit" -> "submit"
    [] k = "createReactions" /\ a = "addReaction" -> "add"
    [] k = "createReactions" /\ a = "removeReaction" -> "remove"
    [] k = "createComments" /\ a = "postComment" -> "post"
    [] k = "createWaitlist" /\ a = "join" -> "join"
    [] k = "createViews" /\ a = "record" -> "record"
    [] k = "createFeedback" /\ a = "submit" -> "submit"
    [] k = "createPoll" /\ a = "vote" -> "vote"
    [] k = "createAnnouncements" /\ a = "dismiss" -> "dismiss"
    [] a = "refresh" -> "fetch"
    [] a = "reset" -> "reset"

\* C7: an invocation of an action makes exactly one controller call: the
\* method the action stands for, with the action's arguments in their order.
C7_ActionsForwardOnce ==
  last.op = "invoke"
    => last.calls
         = <<[method |-> ForwardTable(KindOf(last.inst), last.action),
              args |-> last.args]>>

C7_Witness ==
  /\ last.op = "invoke"
  /\ KindOf(last.inst) = "createComments"
  /\ last.action = "postComment"
  /\ last.args = <<1, 2, 3>>
  /\ last.calls = <<[method |-> "post", args |-> <<1, 2, 3>>]>>
  /\ called[last.inst]["post"] = 1


\* C8: each primitive instance has a controller of its own, and a step taken
\* on one instance (its effect, cleanup, action or request) changes no
\* accessor of another instance.
C8_InstancesShareNoState ==
  /\ [](/\ Len(ctl) = Cardinality(Present)
        /\ \A i, j \in Present : i # j => prim[i].ctl # prim[j].ctl)
  /\ [][\A j \in Inst : Accessors(j)' # Accessors(j) => last'.inst = j]_vars

C8_Witness ==
  /\ Mounted("p") /\ Mounted("q")
  /\ prim["p"].kind = prim["q"].kind /\ prim["p"].auto = prim["q"].auto
  /\ last.inst = "p" /\ last.notified = {"p"}
  /\ signals["p"].status = "success"
  /\ signals["q"].status = "idle"

\* C9 as claimed: in every reachable state the announcements accessor holds
\* no dismissed announcement, and after a notification while subscribed it
\* equals getVisibleAnnouncements().
C9_NeverShowsDismissed ==
  \A i \in Inst :
    KindOf(i) = "createAnnouncements"
      => /\ signals[i].announcements \cap ctl[prim[i].ctl].dismissed = {}
         /\ (Mounted(i) /\ i \in last.notified) =>
              signals[i].announcements = getVisibleAnnouncements(ctl[prim[i].ctl])

\* C9 amended: after each notification while subscribed the announcements
\* accessor equals getVisibleAnnouncements(), so it holds no announcement
\* dismissed by then; after cleanup it keeps its value, whatever is dismissed
\* later.
C9_VisibleAfterNotification ==
  /\ [](\A i \in Inst :
          (KindOf(i) = "createAnnouncements" /\ Mounted(i) /\ i \in last.notified)
            => /\ signals[i].announcements
                    = getVisibleAnnouncements(ctl[prim[i].ctl])
               /\ signals[i].announcements \cap ctl[prim[i].ctl].dismissed = {})
  /\ [][\A i \in Inst :
          (KindOf(i) = "createAnnouncements" /\ phase[i] = "disposed")
            => signals'[i] = signals[i]]_vars

C9_Witness ==
  \E i \in Inst :
    /\ KindOf(i) = "createAnnouncements" /\ Mounted(i) /\ i \in last.notified
    /\ last.op = "invoke" /\ last.action = "dismiss"
    /\ 1 \in ctl[prim[i].ctl].state.announcements
    /\ 1 \in ctl[prim[i].ctl].dismissed
    /\ 1 \notin signals[i].announcements

\* C10: when the controller promise behind an action rejects, the action's
\* promise rejects, the wrapper makes no further controller call, and no
\* accessor changes in any step unless the listener was notified in it.
C10_FailuresPassThrough ==
  /\ []((last.op = "settle" /\ last.outcome = "rejected" /\ last.action # "effect")
          => (last.promise = "rejected" /\ last.calls = <<>>))
  /\ [][OnlyNotificationsSetSignals]_vars

C10_Witness ==
  /\ last.op = "settle" /\ last.outcome = "rejected"
  /\ KindOf(last.inst) = "createPoll" /\ last.action = "vote"
  /\ last.promise = "rejected"
  /\ last.notified = {}
  /\ signals[last.inst].status = "loading"


\* ----------------------------------------------------- documented usage
\* The members of the object primitive i returns: its accessors and actions
\* (return { status, message, error, subscribe, reset } and the like).
Members(i) == DOMAIN Accessors(i) \cup Actions(KindOf(i))

\* The members the README destructures from the return value of a primitive
\* (createViews appears in the README as createViewCounts).
ReadmeMembers(k) ==
  CASE k = "createSubscribe" -> {"submit", "status", "message", "error"}
    [] k = "createReactions" -> {"counts", "userReactions", "add", "remove", "status"}
    [] k = "createComments" -> {"comments", "post", "status", "error"}
    [] k = "createForm" -> {"submit", "status", "message"}
    [] k = "createWaitlist" -> {"join", "status", "message", "position"}
    [] k = "createFeedback" -> {"submit", "status", "message"}
    [] k = "createPoll" -> {"poll", "vote", "hasVoted", "status"}
    [] k = "createAnnouncements" -> {"announcements", "dismiss", "status"}
    [] k = "createViews" -> {"views", "uniqueVisitors", "record", "status"}

\* The primitives whose README example C11 names.
ReadmeMemberKinds == Kinds \ {"createViews"}

\* C11: every member the README destructures from a primitive's return value
\* is a member of the object the primitive returns.
C11_ReadmeMembersReturned ==
  \A i \in Present :
    KindOf(i) \in ReadmeMemberKinds => ReadmeMembers(KindOf(i)) \subseteq Members(i)

\* The functions the package exports: export function createXxx(...).
Exports == Kinds

\* The name under which the README documents each primitive.
ReadmeName(k) == IF k = "createViews" THEN "createViewCounts" ELSE k

\* The primitives named in the README's "All Primitives" table.
ReadmePrimitives == {ReadmeName(k) : k \in Kinds}

\* What `import { name } from "@jamwidgets/solid"` binds: the exported
\* function, or undefined when the package exports no such name.
Import(name) == IF name \in Exports THEN name ELSE "undefined"

\* C12: every primitive named in the README's table is exported by the
\* package under that name: importing a primitive by its README name binds
\* that primitive.
C12_ReadmePrimitivesExported ==
  /\ ReadmePrimitives \subseteq Exports
  /\ \A i \in Present : Import(ReadmeName(KindOf(i))) = KindOf(i)

\* Reading property f of an options object: undefined when it is not there.
Get(options, f) == IF f \in DOMAIN options THEN options[f] ELSE "undefined"

\* The option each primitive passes to its controller's constructor as the
\* identifier: new ReactionsController(config, options.contentId) and so on.
IdOption(k) ==
  CASE k \in {"createReactions", "createComments"} -> "contentId"
    [] k = "createViews" -> "pageId"
    [] k = "createPoll" -> "slug"
    [] k = "createForm" -> "formSlug"
    [] OTHER -> "none"

\* The identifier the controller of a primitive is constructed with.
ControllerId(k, options) == Get(options, IdOption(k))

\* The options as the README passes them.
ReadmeOptions(k) ==
  CASE k \in {"createReactions", "createComments", "createViews"} ->
         [siteKey |-> "your-key", pageId |-> "my-page"]
    [] k = "createPoll" -> [siteKey |-> "your-key", pollId |-> "123"]
    [] k = "createForm" -> [siteKey |-> "your-key", formSlug |-> "contact"]
    [] OTHER -> [siteKey |-> "your-key"]

\* The identifier the README example means to address.
ReadmeId(k) ==
  CASE k \in {"createReactions", "createComments"} -> "my-page"
    [] k = "createPoll" -> "123"

\* The primitives whose README example passes pageId / pollId (C13).
ReadmeIdKinds == {"createReactions", "createComments", "createPoll"}

\* C13: the identifier passed in the options as the README shows it is the
\* identifier the controller is constructed with.
C13_ReadmeIdReachesController ==
  \A i \in Present :
    KindOf(i) \in ReadmeIdKinds
      => ControllerId(KindOf(i), ReadmeOptions(KindOf(i))) = ReadmeId(KindOf(i))

\* The README's view-count component: default options and one record() call
\* in onMount, the effect having run.
ReadmeViewsUsage(i) ==
  /\ KindOf(i) = "createViews" /\ prim[i].auto = "omitted"
  /\ Live(i)
  /\ invoked[i]["record"] = 1

\* C14: a mount of the README's view-count component makes exactly one
\* controller.record call.
C14_ReadmeUsageRecordsOnce ==
  \A i \in Present : ReadmeViewsUsage(i) => called[i]["record"] = 1

\* ------------------------------------------------------------- reactivity
\* The signals reading accessor a reads, which are what a computation that
\* calls the accessor comes to depend on: each signal accessor is its signal's
\* getter; hasVoted calls controller.hasVoted() and reads no signal.
Tracks(k, a) == IF k = "createPoll" /\ a = "hasVoted" THEN {} ELSE {a}

\* A step re-runs the computations that read accessor a of instance i: it
\* sets one of the signals they depend on to another value.
Rerun(i, a) == \E s \in Tracks(KindOf(i), a) : signals'[i][s] # signals[i][s]

\* C15: whenever the value an accessor returns changes, the computations
\* that read the accessor are re-run.
C15_AccessorsReactive ==
  [][\A i \in Present : \A a \in DOMAIN Accessors(i) :
       Accessors(i)'[a] # Accessors(i)[a] => Rerun(i, a)]_vars

\* -------------------------------------------------- the automatic request
\* The step just taken belongs to the automatic call of instance i: the
\* effect that made it, or the settling of the request it started.
AutoStep(i) ==
  /\ last'.inst = i /\ last'.action = "effect"
  /\ last'.op \in {"effect", "settle"}
  /\ AutoEnabled(KindOf(i), prim[i].auto)

\* The automatic call of instance i makes its controller emit a state in the
\* step just taken.
AutoEmission(i) == AutoStep(i) /\ ctl'[prim[i].ctl].state # ctl[prim[i].ctl].state

\* The listener of instance i was subscribed by the effect and called with the
\* controller's new state in the step just taken; the accessors hold it.
Delivered(i) ==
  /\ i \in last'.notified
  /\ called'[i]["subscribe"] = 1
  /\ signals'[i] = Listener(KindOf(i), ctl'[prim[i].ctl].state, ctl'[prim[i].ctl])

\* C16 as claimed: the listener is registered before the automatic fetch /
\* record is called, and every state the controller emits because of the
\* automatic call (loading, then success or error) reaches the accessors.
C16_NoAutoNotificationMissed ==
  [][\A i \in Present : AutoEmission(i) => Delivered(i)]_vars

\* C16 amended: the listener is registered before the automatic call, and
\* every state the controller emits because of it while the primitive is still
\* mounted reaches the accessors; what it emits after the cleanup does not.
C16_AutoNotificationsDeliveredWhileMounted ==
  [][\A i \in Present :
       AutoEmission(i) => (Delivered(i) <=> phase'[i] = "mounted")]_vars

C16_Witness ==
  \E i \in Inst :
    /\ KindOf(i) = "createAnnouncements" /\ prim[i].auto = "omitted" /\ Mounted(i)
    /\ last.op = "settle" /\ last.action = "effect" /\ last.inst = i
    /\ invoked[i] = NoInvocations
    /\ i \in last.notified
    /\ signals[i].status = "success"
    /\ signals[i].announcements = {1}

\* ------------------------------------------------------ overlapping actions
\* The requests of instance i that have not settled, in call order.
PendingOf(i) == SelectSeq(pending, LAMBDA r : r.inst = i)

\* C17: an action invoked while earlier requests are still pending is
\* forwarded like any other: it makes its one controller call, the call joins
\* the pending requests behind the earlier ones, none of which is dropped or
\* reordered; and after each notification while subscribed the accessors hold
\* what the controller emitted.
C17_OverlappingActionsAllForwarded ==
  /\ [][last'.op = "invoke" =>
          LET i == last'.inst
              m == ForwardTable(KindOf(i), last'.action)
              call == [method |-> m, args |-> last'.args]
              req == [inst |-> i, src |-> last'.action, method |-> m]
          IN /\ last'.calls = <<call>>
             /\ called'[i][m] = called[i][m] + 1
             /\ pending' = IF m \in SyncMethods THEN pending ELSE Append(pending, req)]_vars
  /\ [](\A i \in Present :
          (Mounted(i) /\ i \in last.notified)
            => signals[i] = Listener(KindOf(i), ctl[prim[i].ctl].state, ctl[prim[i].ctl]))

C17_Witness ==
  \E i \in Inst :
    /\ KindOf(i) = "createReactions" /\ Mounted(i)
    /\ last.op = "invoke" /\ last.inst = i /\ last.action = "addReaction"
    /\ invoked[i]["addReaction"] = 2 /\ called[i]["add"] = 2
    /\ [n \in 1..Len(PendingOf(i)) |-> PendingOf(i)[n].method] = <<"fetch", "add", "add">>
    /\ i \in last.notified /\ signals[i].status = "loading"

====
